---- MODULE Spec2Model ----
(***************************************************************************)
(* A model of biome-data: the structural flattening of nested tables       *)
(* (sources/utils.py) and the DataSource facade (sources/datasource.py).    *)
(*                                                                         *)
(* Python values are tagged tuples, so that values of different Python     *)
(* types can be compared:                                                  *)
(*   <<"none">>           None                                             *)
(*   <<"nan">>            float("nan"), pandas' missing-value marker       *)
(*   <<"s", n>>           a number                                         *)
(*   <<"d", keys, vals>>  a dict, keys in insertion order                  *)
(*   <<"l", elems>>       a list                                           *)
(* A pandas DataFrame is [columns, index, data], data[j][i] being the cell *)
(* of column j in row i.                                                   *)
(***************************************************************************)
EXTENDS Integers, Sequences, FiniteSets, TLC

VARIABLES
    pc,           \* where the caller is
    data_frame,   \* the table given to flatten_dataframe
    result,       \* what the first call returned or raised
    second,       \* what flatten_dataframe of that result returned or raised
    partition,    \* the pandas partition given to _flatten_stage
    _df,          \* DataSource._df
    mapping,      \* DataSource.mapping
    out,          \* what the last DataSource call returned or raised
    SUPPORTED_FORMATS,  \* DataSource.SUPPORTED_FORMATS, the items in insertion order
    reader_calls, \* the calls of source readers so far
    registrations, \* the calls of add_supported_format so far
    args,         \* the arguments of the call that out is the outcome of
    __DASK_CLIENT,  \* biome.data.utils.__DASK_CLIENT
    clients,      \* the dask clients created so far
    clusters      \* the local clusters created so far

flatVars == <<data_frame, result, second, partition>>
dsVars == <<_df, mapping, out>>
clsVars == <<SUPPORTED_FORMATS, reader_calls, registrations>>
daskVars == <<__DASK_CLIENT, clients, clusters>>
vars == <<pc, flatVars, dsVars, clsVars, args, daskVars>>

---------------------------------------------------------------------------
(* Bounds *)

MaxRows == 2          \* rows of an input table
MaxFeatures == 2      \* source columns one mapping entry names
MaxAdds == 2          \* calls of add_supported_format
RecursionLimit == 5   \* Python's recursion limit, scaled down

---------------------------------------------------------------------------
(* Python values *)

None == <<"none">>
NaN == <<"nan">>
Scalar(n) == <<"s", n>>
Dict(keys, vals) == <<"d", keys, vals>>
List(elems) == <<"l", elems>>

Tag(v) == v[1]
IsDict(v) == Tag(v) = "d"
IsList(v) == Tag(v) = "l"
Keys(d) == d[2]
Vals(d) == d[3]
Elems(l) == l[2]

Range(s) == {s[i] : i \in 1..Len(s)}

Max(a, b) == IF a >= b THEN a ELSE b

\* pandas.isna on a cell: None and NaN are both missing
isna(v) == Tag(v) \in {"none", "nan"}

\* bool(v): None, 0, {} and [] are falsy; NaN is a non-zero float, so truthy
Truthy(v) ==
    CASE Tag(v) = "none" -> FALSE
      [] Tag(v) = "nan" -> TRUE
      [] Tag(v) = "s" -> v[2] # 0
      [] Tag(v) = "d" -> Len(Keys(v)) > 0
      [] Tag(v) = "l" -> Len(Elems(v)) > 0

\* d.get(k, default)
DictGet(d, k, default) ==
    IF k \in Range(Keys(d))
    THEN Vals(d)[CHOOSE i \in 1..Len(Keys(d)) : Keys(d)[i] = k]
    ELSE default

\* the nesting depth of a value: 0 for a scalar or a missing value
RECURSIVE Depth(_)
RECURSIVE MaxDepth(_)
MaxDepth(vs) == IF vs = <<>> THEN 0 ELSE Max(Depth(Head(vs)), MaxDepth(Tail(vs)))
Depth(v) ==
    CASE IsDict(v) -> 1 + MaxDepth(Vals(v))
      [] IsList(v) -> 1 + MaxDepth(Elems(v))
      [] OTHER -> 0

\* str(n) of a positional column label
IntLabel(n) == CASE n = 0 -> "0" [] n = 1 -> "1" [] n = 2 -> "2" [] OTHER -> "3"

\* the keys of the model's values, in sorted order
KeyOrder == <<"0", "1", "2", "3", "a", "b">>

---------------------------------------------------------------------------
(* pandas 0.25: the DataFrame constructor and to_dict, as far as           *)
(* flatten_dataframe and _dict_to_list use them                            *)

Ok(df) == [exc |-> "none", df |-> df]
Raise(e) == [exc |-> e, df |-> [columns |-> <<>>, index |-> <<>>, data |-> <<>>]]

default_index(n) == [i \in 1..n |-> i - 1]

\* lib.fast_unique_multiple_list_gen(gen, sort=False): first-seen order
RECURSIVE AppendNew(_, _)
AppendNew(acc, ks) ==
    IF ks = <<>> THEN acc
    ELSE AppendNew(IF Head(ks) \in Range(acc) THEN acc ELSE Append(acc, Head(ks)),
                   Tail(ks))

\* the keys of the dicts from the first to the last, each once
RECURSIVE UnionKeysFrom(_, _, _)
UnionKeysFrom(acc, dicts, i) ==
    IF i > Len(dicts) THEN acc
    ELSE UnionKeysFrom(AppendNew(acc, Keys(dicts[i])), dicts, i + 1)

UnionKeysInOrder(dicts) == UnionKeysFrom(<<>>, dicts, 1)

\* the length of the longest list of a list of lists
RECURSIVE MaxLenOf(_)
MaxLenOf(lists) ==
    IF lists = <<>> THEN 0 ELSE Max(Len(Elems(Head(lists))), MaxLenOf(Tail(lists)))

\* lib.maybe_convert_objects: a column of numbers and missing values becomes
\* a float column, where None is NaN; any other column stays an object column
maybe_convert_objects(vals) ==
    IF /\ \A i \in 1..Len(vals) : Tag(vals[i]) \in {"s", "none", "nan"}
       /\ \E i \in 1..Len(vals) : Tag(vals[i]) \in {"s", "nan"}
    THEN [i \in 1..Len(vals) |-> IF Tag(vals[i]) = "none" THEN NaN ELSE vals[i]]
    ELSE vals

\* pd.DataFrame(data=<list>, index=<index or nothing>)
DataFrame(data, index, given) ==
    IF Len(data) = 0
    THEN Ok([columns |-> <<>>, index |-> IF given THEN index ELSE <<>>, data |-> <<>>])
    ELSE LET idx == IF given THEN index ELSE default_index(Len(data)) IN
    IF IsDict(data[1])
    THEN \* to_arrays -> _list_of_dict_to_arrays: x.keys() of every element
         IF \E i \in 1..Len(data) : ~IsDict(data[i]) THEN Raise("AttributeError")
         ELSE LET cols == UnionKeysInOrder(data) IN
              IF Len(cols) > 0 /\ Len(idx) # Len(data)
              THEN Raise("ValueError")  \* shape of passed values against the index
              ELSE Ok([columns |-> cols, index |-> idx,
                       data |-> [j \in 1..Len(cols) |->
                                   maybe_convert_objects(
                                     [i \in 1..Len(data) |->
                                        DictGet(data[i], cols[j], NaN)])]])
    ELSE IF IsList(data[1])
    THEN \* to_arrays -> _list_to_arrays -> lib.to_object_array: len() of every row
         IF \E i \in 1..Len(data) : Tag(data[i]) \in {"s", "none", "nan"}
         THEN Raise("TypeError")
         ELSE IF \E i \in 1..Len(data) : IsDict(data[i]) THEN Raise("Unmodelled")
         ELSE LET k == MaxLenOf(data) IN
              IF k > 4 THEN Raise("Unmodelled")
              ELSE IF k > 0 /\ Len(idx) # Len(data) THEN Raise("ValueError")
              ELSE Ok([columns |-> [j \in 1..k |-> IntLabel(j - 1)], index |-> idx,
                       data |-> [j \in 1..k |->
                                   maybe_convert_objects(
                                     [i \in 1..Len(data) |->
                                        IF j <= Len(Elems(data[i]))
                                        THEN Elems(data[i])[j] ELSE None])]])
    ELSE \* data[0] is not list-like: init_ndarray, one column labelled 0
         IF Len(idx) # Len(data) THEN Raise("ValueError")
         ELSE Ok([columns |-> <<IntLabel(0)>>, index |-> idx,
                  data |-> <<maybe_convert_objects(data)>>])

\* DataFrame.to_dict(orient="list")
to_dict(df) == Dict(df.columns, [j \in 1..Len(df.columns) |-> List(df.data[j])])

\* the keys of ks in sorted order (union_indexes sorts a dict-of-dicts' row labels)
SortKeys(ks) == SelectSeq(KeyOrder, LAMBDA k : k \in Range(ks))

\* pd.DataFrame(<dict>).to_dict(orient="list"): [exc, ret]
DataFrameDict(d) ==
    LET vals == Vals(d)
        J == 1..Len(vals)
        have_dicts == \E j \in J : IsDict(vals[j])
        have_raw == \E j \in J : IsList(vals[j])
        lengths == {Len(Elems(vals[j])) : j \in {x \in J : IsList(vals[x])}}
    IN  IF Len(vals) = 0
        THEN [exc |-> "none", ret |-> Dict(<<>>, <<>>)]
        ELSE IF ~have_dicts /\ ~have_raw
        THEN [exc |-> "ValueError", ret |-> None]  \* all scalar values and no index
        ELSE IF have_raw /\ (Cardinality(lengths) > 1 \/ have_dicts)
        THEN [exc |-> "ValueError", ret |-> None]  \* lengths differ, or dicts mixed in
        ELSE IF have_raw
        THEN LET n == CHOOSE x \in lengths : TRUE IN
             [exc |-> "none",
              ret |-> Dict(Keys(d),
                           [j \in J |-> List(maybe_convert_objects(
                               [i \in 1..n |-> IF IsList(vals[j]) THEN Elems(vals[j])[i]
                                               ELSE vals[j]]))])]
        ELSE LET rows == SortKeys(UnionKeysInOrder(SelectSeq(vals, IsDict))) IN
             [exc |-> "none",
              ret |-> Dict(Keys(d),
                           [j \in J |-> List(maybe_convert_objects(
                               [i \in 1..Len(rows) |->
                                  IF IsDict(vals[j]) THEN DictGet(vals[j], rows[i], NaN)
                                  ELSE vals[j]]))])]

---------------------------------------------------------------------------
(* sources/utils.py *)

\* the except clause of _dict_to_list: ValueError and TypeError become None
Caught(r) ==
    IF r.exc \in {"ValueError", "TypeError"} THEN [exc |-> "none", ret |-> None] ELSE r

\* .to_dict(orient="list") of a frame that was built, [exc, ret]
ToDictOf(r) ==
    IF r.exc = "none" THEN [exc |-> "none", ret |-> to_dict(r.df)]
    ELSE [exc |-> r.exc, ret |-> None]

\* the loop of _dict_to_list: the last element that is a list replaces row
LastListOr(row) ==
    LET lists == SelectSeq(Elems(row), IsList) IN
    IF lists # <<>> THEN lists[Len(lists)] ELSE row

\* _dict_to_list(row): [exc, ret], exc the exception that escapes the try
_dict_to_list(row) ==
    IF Tag(row) \in {"none", "nan", "s"}
    THEN [exc |-> "none", ret |-> None]       \* not iterable: TypeError, caught
    ELSE Caught(IF IsDict(row)
                THEN \* iterating a dict yields its keys, none of them a list
                     DataFrameDict(row)
                ELSE ToDictOf(DataFrame(Elems(LastListOr(row)), <<>>, FALSE)))

\* is_list_of_structured_data with the list elements forgotten: only a dict counts
is_list_of_dicts(elem) ==
    /\ IsList(elem)
    /\ \E i \in 1..Len(Elems(elem)) : IsDict(Elems(elem)[i])

\* is_list_of_structured_data with the look at the elements forgotten
is_nonempty_list(elem) == IsList(elem) /\ Len(Elems(elem)) > 0

\* is_list_of_structured_data(elem)
is_list_of_structured_data(elem) ==
    /\ IsList(elem)
    /\ \E i \in 1..Len(Elems(elem)) : Tag(Elems(elem)[i]) \in {"d", "l"}

\* data_frame[column]
ColumnOf(df, column) ==
    df.data[CHOOSE j \in 1..Len(df.columns) :
              df.columns[j] = column /\ \A x \in 1..(j - 1) : df.columns[x] # column]

\* the bucket of one column: its first non-missing value decides
ColumnKind(values) ==
    LET column_data == SelectSeq(values, LAMBDA v : ~isna(v))
        element == IF column_data # <<>> THEN column_data[1] ELSE None
    IN  IF IsDict(element) THEN "dicts"
        ELSE IF is_list_of_structured_data(element) THEN "lists"
        ELSE "unmodified"

\* _columns_analysis(data_frame): the three lists of column names
_columns_analysis(df) ==
    LET kind(c) == ColumnKind(ColumnOf(df, c)) IN
    [dicts |-> SelectSeq(df.columns, LAMBDA c : kind(c) = "dicts"),
     lists |-> SelectSeq(df.columns, LAMBDA c : kind(c) = "lists"),
     unmodified |-> SelectSeq(df.columns, LAMBDA c : kind(c) = "unmodified")]

\* data_frame[names]
SelectColumns(df, names) ==
    [columns |-> names, index |-> df.index,
     data |-> [j \in 1..Len(names) |-> ColumnOf(df, names[j])]]

\* column_df.columns = [f"{prefix}{c}" for c in column_df.columns]
Renamed(df, prefix) ==
    [df EXCEPT !.columns = [j \in 1..Len(df.columns) |-> prefix \o df.columns[j]]]

\* pd.concat(dfs, axis=1) of frames that share their index
RECURSIVE concat(_)
concat(dfs) ==
    IF Len(dfs) = 1 THEN dfs[1]
    ELSE LET rest == concat(Tail(dfs)) IN
         [columns |-> dfs[1].columns \o rest.columns, index |-> dfs[1].index,
          data |-> dfs[1].data \o rest.data]

\* the frame r, when it was built, with its columns renamed
RenamedOf(r, prefix) == IF r.exc # "none" THEN r ELSE Ok(Renamed(r.df, prefix))

\* the first of the outcomes rs that is an exception
FirstRaised(rs) ==
    rs[CHOOSE i \in 1..Len(rs) :
         rs[i].exc # "none" /\ \A x \in 1..(i - 1) : rs[x].exc = "none"].exc

\* lines 185-191, applied the column's _dict_to_list outcomes
ListFrameOf(df, column, applied) ==
    IF \E i \in 1..Len(applied) : applied[i].exc # "none"
    THEN Raise(FirstRaised(applied))
    ELSE RenamedOf(DataFrame(SelectSeq([i \in 1..Len(applied) |-> applied[i].ret],
                                       Truthy),
                             df.index, TRUE),
                   column \o ".*.")

\* the frame built for one list-of-structured column (lines 185-191)
ListColumnFrame(df, column) ==
    ListFrameOf(df, column,
                [i \in 1..Len(df.index) |-> _dict_to_list(ColumnOf(df, column)[i])])

\* the frame built for one dict column (lines 195-201)
DictColumnFrame(df, column) ==
    RenamedOf(DataFrame([i \in 1..Len(df.index) |->
                           IF Truthy(ColumnOf(df, column)[i])
                           THEN ColumnOf(df, column)[i] ELSE Dict(<<>>, <<>>)],
                        df.index, TRUE),
              column \o ".")

\* the frames of lines 183-202, the list columns' before the dict columns'
BuiltFrames(df, an) ==
    [j \in 1..Len(an.lists) |-> ListColumnFrame(df, an.lists[j])]
    \o [j \in 1..Len(an.dicts) |-> DictColumnFrame(df, an.dicts[j])]

\* line 205: the unmodified columns beside the flattened new ones
Returned205(df, an, flatten) ==
    IF flatten.exc # "none" THEN flatten
    ELSE [exc |-> "none",
          df |-> concat(<<SelectColumns(df, an.unmodified), flatten.df>>),
          calls |-> flatten.calls]

\* flatten_dataframe(data_frame), level recursive calls deep:
\* [exc, df, calls], calls the deepest level reached
RECURSIVE flatten_dataframe(_, _)
RECURSIVE FlattenBuilt(_, _, _, _)

\* lines 204-205, built the frames of the structured columns
FlattenBuilt(df, level, an, built) ==
    IF \E j \in 1..Len(built) : built[j].exc # "none"
    THEN [exc |-> FirstRaised(built), df |-> Raise("").df, calls |-> level]
    ELSE IF level >= RecursionLimit
    THEN [exc |-> "RecursionError", df |-> Raise("").df, calls |-> level]
    ELSE Returned205(df, an,
                     flatten_dataframe(concat([j \in 1..Len(built) |-> built[j].df]),
                                       level + 1))

\* lines 180-181, an the column analysis
FlattenAnalysed(df, level, an) ==
    IF Len(df.columns) = Len(an.unmodified)
    THEN [exc |-> "none", df |-> df, calls |-> level]
    ELSE FlattenBuilt(df, level, an, BuiltFrames(df, an))

flatten_dataframe(df, level) == FlattenAnalysed(df, level, _columns_analysis(df))

\* data_frame_i[column] = values
SetColumn(df, column, values) ==
    IF column \in Range(df.columns)
    THEN [df EXCEPT !.data = [j \in 1..Len(df.columns) |->
                                IF df.columns[j] = column THEN values ELSE df.data[j]]]
    ELSE [df EXCEPT !.columns = Append(df.columns, column),
                    !.data = Append(df.data, values)]

\* the loop of _flatten_stage: every column of new_df is assigned to data_frame_i
RECURSIVE AssignColumns(_, _, _)
AssignColumns(data_frame_i, new_df, j) ==
    IF j > Len(new_df.columns) THEN data_frame_i
    ELSE AssignColumns(SetColumn(data_frame_i, new_df.columns[j], new_df.data[j]),
                       new_df, j + 1)

\* _flatten_stage(data_frame_i), new_df the outcome of flatten_dataframe:
\* what it returns is data_frame_i itself, with the columns assigned
_flatten_stage(data_frame_i, new_df) ==
    IF new_df.exc # "none" THEN new_df
    ELSE [new_df EXCEPT !.df = AssignColumns(data_frame_i, new_df.df, 1)]

---------------------------------------------------------------------------
(* sources/datasource.py: the format registry and the constructor.          *)
(* A Python string whose characters matter is the sequence of them; an       *)
(* optional string is <<"none">> or <<"str", chars>>; a source is <<"none">>, *)
(* <<"str", path>> or <<"list", paths>>; a dict of parameters is the set of  *)
(* its items.                                                               *)

NoFrame == Raise("").df

\* no call under way, and the module biome.data.utils as it is imported
NoArgs == <<>>
NoDask == __DASK_CLIENT = None /\ clients = <<>> /\ clusters = <<>>

Whitespace == {" ", "\t"}

LowerChar(c) ==
    CASE c = "C" -> "c" [] c = "S" -> "s" [] c = "V" -> "v" [] c = "N" -> "n"
      [] c = "E" -> "e" [] c = "W" -> "w" [] c = "Z" -> "z" [] c = "I" -> "i"
      [] c = "P" -> "p" [] OTHER -> c

UpperChar(c) ==
    CASE c = "c" -> "C" [] c = "s" -> "S" [] c = "v" -> "V" [] c = "n" -> "N"
      [] c = "e" -> "E" [] c = "w" -> "W" [] c = "z" -> "Z" [] c = "i" -> "I"
      [] c = "p" -> "P" [] OTHER -> c

\* str.lower, str.upper
lower(chars) == [i \in 1..Len(chars) |-> LowerChar(chars[i])]
upper(chars) == [i \in 1..Len(chars) |-> UpperChar(chars[i])]

\* str.strip
RECURSIVE lstrip(_)
lstrip(chars) ==
    IF chars # <<>> /\ Head(chars) \in Whitespace THEN lstrip(Tail(chars)) ELSE chars

RECURSIVE rstrip(_)
rstrip(chars) ==
    IF chars # <<>> /\ chars[Len(chars)] \in Whitespace
    THEN rstrip(SubSeq(chars, 1, Len(chars) - 1))
    ELSE chars

strip(chars) == rstrip(lstrip(chars))

\* the last position of character c in chars, 0 when there is none
LastIndexOf(chars, c) ==
    IF c \in Range(chars)
    THEN CHOOSE i \in 1..Len(chars) :
            chars[i] = c /\ \A x \in (i + 1)..Len(chars) : chars[x] # c
    ELSE 0

\* os.path.splitext(path): the extension starts at the last dot of the last
\* component, unless only dots precede it there
splitext(path) ==
    LET sep == LastIndexOf(path, "/")
        dot == LastIndexOf(path, ".")
    IN  IF dot > sep /\ \E x \in (sep + 1)..(dot - 1) : path[x] # "."
        THEN [name |-> SubSeq(path, 1, dot - 1), extension |-> SubSeq(path, dot, Len(path))]
        ELSE [name |-> path, extension |-> <<>>]

\* bool(x) of an optional string or a source
Given(x) == x[1] # "none" /\ Len(x[2]) > 0

\* the paths of a source: a string is the list of it (lines 301-302)
PathsOf(source) == IF source[1] = "str" THEN <<source[2]>> ELSE source[2]

\* DataSource.__format_from_source(source)
__format_from_source(source) ==
    LET formats == { IF splitext(PathsOf(source)[i]).extension # <<>>
                     THEN Tail(splitext(PathsOf(source)[i]).extension)
                     ELSE splitext(PathsOf(source)[i]).name :
                     i \in 1..Len(PathsOf(source)) }
    IN  IF Cardinality(formats) # 1
        THEN [exc |-> "TypeError", formats |-> formats, format |-> <<"none">>]
        ELSE [exc |-> "none", formats |-> formats,
              format |-> <<"str", CHOOSE f \in formats : TRUE>>]

\* lines 82-83 with the source looked at although a format is given
RequestedFormat_prefers_source(source, format) ==
    IF Given(source) THEN __format_from_source(source)
    ELSE [exc |-> "none", formats |-> {}, format |-> format]

\* lines 82-83: the format the reader is looked up by
RequestedFormat(source, format) ==
    IF ~Given(format) /\ Given(source) THEN __format_from_source(source)
    ELSE [exc |-> "none", formats |-> {}, format |-> format]

KeysOf(registry) == [n \in 1..Len(registry) |-> registry[n].key]

EntryOf(registry, key) ==
    registry[CHOOSE n \in 1..Len(registry) : registry[n].key = key]

NoEntry == [key |-> <<>>, parser |-> "", default_params |-> {}]

\* _find_reader with the cleaned format in the message
_find_reader_names_clean(registry, source_format) ==
    IF source_format[1] = "none"
    THEN [exc |-> "AttributeError", named |-> <<>>, supported |-> <<>>, entry |-> NoEntry]
    ELSE IF strip(lower(source_format[2])) \in Range(KeysOf(registry))
    THEN [exc |-> "none", named |-> <<>>, supported |-> <<>>,
          entry |-> EntryOf(registry, strip(lower(source_format[2])))]
    ELSE [exc |-> "TypeError", named |-> strip(lower(source_format[2])),
          supported |-> KeysOf(registry), entry |-> NoEntry]

\* DataSource._find_reader(source_format)
_find_reader(registry, source_format) ==
    IF source_format[1] = "none"
    THEN \* None has no lower(): not the KeyError the except clause catches
         [exc |-> "AttributeError", named |-> <<>>, supported |-> <<>>, entry |-> NoEntry]
    ELSE IF strip(lower(source_format[2])) \in Range(KeysOf(registry))
    THEN [exc |-> "none", named |-> <<>>, supported |-> <<>>,
          entry |-> EntryOf(registry, strip(lower(source_format[2])))]
    ELSE [exc |-> "TypeError", named |-> source_format[2],
          supported |-> KeysOf(registry), entry |-> NoEntry]

\* {**base, **over}
Merged(base, over) ==
    {item \in base : \A o \in over : o[1] # item[1]} \cup over

\* add_supported_format that leaves a key that is there as it is
add_supported_format_keeps_first(registry, format_key, parser, default_params) ==
    IF format_key \in Range(KeysOf(registry))
    THEN registry
    ELSE Append(registry,
                [key |-> format_key, parser |-> parser,
                 default_params |-> IF default_params[1] = "none" THEN {}
                                    ELSE default_params[2]])

\* x or {} of an optional dict: <<"none">> or <<"dict", items>>
OrEmpty(x) == IF x[1] = "none" THEN {} ELSE x[2]

\* DataSource.add_supported_format(format_key, parser, default_params)
add_supported_format(registry, format_key, parser, default_params) ==
    IF format_key \in Range(KeysOf(registry))
    THEN \* a warning, and the item is replaced where it is
         [n \in 1..Len(registry) |->
            IF registry[n].key = format_key
            THEN [key |-> format_key, parser |-> parser,
                  default_params |-> OrEmpty(default_params)]
            ELSE registry[n]]
    ELSE Append(registry,
                [key |-> format_key, parser |-> parser,
                 default_params |-> OrEmpty(default_params)])

\* df.dropna(how="all")
DropEmptyRows(df) ==
    LET kept == SelectSeq([i \in 1..Len(df.index) |-> i],
                          LAMBDA i : \E j \in 1..Len(df.columns) : ~isna(df.data[j][i]))
    IN  [columns |-> df.columns,
         index |-> [n \in 1..Len(kept) |-> df.index[kept[n]]],
         data |-> [j \in 1..Len(df.columns) |->
                     [n \in 1..Len(kept) |-> df.data[j][kept[n]]]]]

\* the rename with only the leading whitespace taken off
StripColumns_lstrip_only(df) ==
    [df EXCEPT !.columns = [j \in 1..Len(df.columns) |-> lstrip(df.columns[j])]]

\* df.rename(columns={column: column.strip() ...})
StripColumns(df) ==
    [df EXCEPT !.columns = [j \in 1..Len(df.columns) |-> strip(df.columns[j])]]

ID == <<"i", "d">>

\* lines 97-98: df.set_index("id") when there is a column of that name
SetIndexId(df) ==
    IF ID \in Range(df.columns)
    THEN [columns |-> SelectSeq(df.columns, LAMBDA c : c # ID),
          index |-> [i \in 1..Len(df.index) |-> ColumnOf(df, ID)[i][2]],
          data |-> [n \in 1..Len(SelectSeq(df.columns, LAMBDA c : c # ID)) |->
                      ColumnOf(df, SelectSeq(df.columns, LAMBDA c : c # ID)[n])]]
    ELSE df

NoCall ==
    [called |-> FALSE, parser |-> "", with_source |-> FALSE, arguments |-> {},
     returned |-> NoFrame]

\* lines 86-101, found the outcome of _find_reader, raw what the reader returns
ReadWith(found, req, source, attributes, items, raw) ==
    IF found.exc # "none"
    THEN [exc |-> found.exc, named |-> found.named, supported |-> found.supported,
          formats |-> req.formats, call |-> NoCall, df |-> NoFrame, mapping |-> <<>>]
    ELSE [exc |-> "none", named |-> <<>>, supported |-> <<>>, formats |-> req.formats,
          call |-> [called |-> TRUE, parser |-> found.entry.parser,
                    with_source |-> Given(source),
                    arguments |-> Merged(found.entry.default_params, OrEmpty(attributes)),
                    returned |-> raw],
          df |-> SetIndexId(StripColumns(DropEmptyRows(raw))),
          mapping |-> IF items[1] = "none" THEN <<>> ELSE items[2]]

\* lines 85-101, req the outcome of lines 82-83
FindAndRead(registry, req, source, attributes, items, raw) ==
    IF req.exc # "none"
    THEN [exc |-> req.exc, named |-> <<>>, supported |-> <<>>, formats |-> req.formats,
          call |-> NoCall, df |-> NoFrame, mapping |-> <<>>]
    ELSE ReadWith(_find_reader(registry, req.format), req, source, attributes, items, raw)

\* DataSource.__init__(source, attributes, mapping, format)
__init__(registry, source, attributes, items, format, raw) ==
    FindAndRead(registry, RequestedFormat(source, format), source, attributes, items, raw)

\* the formats a DataSource class starts with (lines 47-60)
ExcelDefaults == {<<"na_filter", "False">>, <<"keep_default_na", "False">>, <<"dtype", "str">>}
CsvDefaults == {<<"assume_missing", "False">>, <<"na_filter", "False">>, <<"dtype", "str">>}

\* ElasticsearchDataFrameReader.SOURCE_TYPE
SOURCE_TYPE == <<"e", "l", "a", "s", "t", "i", "c", "s", "e", "a", "r", "c", "h">>

BuiltinFormats ==
    << [key |-> <<"x", "l", "s">>, parser |-> "from_excel", default_params |-> ExcelDefaults],
       [key |-> <<"x", "l", "s", "x">>, parser |-> "from_excel",
        default_params |-> ExcelDefaults],
       [key |-> <<"c", "s", "v">>, parser |-> "from_csv", default_params |-> CsvDefaults],
       [key |-> <<"j", "s", "o", "n">>, parser |-> "from_json", default_params |-> {}],
       [key |-> <<"j", "s", "o", "n", "l">>, parser |-> "from_json", default_params |-> {}],
       [key |-> <<"j", "s", "o", "n", "-", "l">>, parser |-> "from_json",
        default_params |-> {}],
       [key |-> <<"p", "a", "r", "q", "u", "e", "t">>, parser |-> "from_parquet",
        default_params |-> {}],
       [key |-> SOURCE_TYPE, parser |-> "ElasticsearchDataFrameReader.read",
        default_params |-> {}] >>

---------------------------------------------------------------------------
(* The tables the flattening is applied to *)

Record1 == Dict(<<"a">>, <<Scalar(1)>>)
Record2 == Dict(<<"a">>, <<Scalar(2)>>)
RecordB == Dict(<<"b">>, <<Scalar(2)>>)

CellValues ==
    { Scalar(1), None, NaN,
      Dict(<<>>, <<>>),
      Record1,
      RecordB,
      Dict(<<"a", "b">>, <<Scalar(1), Scalar(2)>>),
      Dict(<<"a">>, <<Dict(<<"b">>, <<Scalar(1)>>)>>),
      Dict(<<"a">>, <<List(<<RecordB>>)>>),
      List(<<>>),
      List(<<Scalar(1), Scalar(2)>>),
      List(<<Record1, Record2>>),
      List(<<Record1, RecordB>>),
      List(<<Record1, Scalar(1)>>),
      List(<<Scalar(1), Record1>>),
      List(<<List(<<Scalar(1), Scalar(2)>>)>>),
      List(<<Dict(<<"a">>, <<RecordB>>)>>),
      List(<<Dict(<<>>, <<>>)>>) }

\* a row index: the default one, or labels in another order
IndexChoices(n) == {default_index(n), [i \in 1..n |-> 10 - i]}

\* a table of n rows: column c holds any cell value, column u holds numbers
InputTables ==
    UNION { { [columns |-> <<"c", "u">>, index |-> idx,
               data |-> <<cells, [i \in 1..n |-> Scalar(10 + i)]>>] :
              cells \in [1..n -> CellValues], idx \in IndexChoices(n) } :
            n \in 1..MaxRows }

NoResult == [exc |-> "unset", df |-> Raise("").df, calls |-> 0]

NoOut == [exc |-> "unset", named |-> <<>>, df |-> NoFrame]

---------------------------------------------------------------------------
(* The flattening, applied to a table: once, twice, and as the per-partition *)
(* stage of flatten_dask_dataframe                                           *)

InitFlatten ==
    /\ pc = "start"
    /\ data_frame \in InputTables
    /\ partition = data_frame
    /\ result = NoResult
    /\ second = NoResult
    /\ _df = NoFrame
    /\ mapping = <<>>
    /\ out = NoOut
    /\ SUPPORTED_FORMATS = BuiltinFormats
    /\ reader_calls = <<>>
    /\ registrations = <<>>
    /\ args = NoArgs
    /\ NoDask

\* result = flatten_dataframe(data_frame)
CallFlatten ==
    /\ pc = "start"
    /\ result' = flatten_dataframe(data_frame, 0)
    /\ pc' = "flattened"
    /\ UNCHANGED <<data_frame, partition, second, dsVars, clsVars, args, daskVars>>

\* second = flatten_dataframe(result)
CallFlattenAgain ==
    /\ pc = "flattened"
    /\ result.exc = "none"
    /\ second' = flatten_dataframe(result.df, 0)
    /\ pc' = "reflattened"
    /\ UNCHANGED <<data_frame, partition, result, dsVars, clsVars, args, daskVars>>

\* result = _flatten_stage(partition): the stage assigns into its argument
FlattenStage ==
    /\ pc = "start"
    /\ result' = _flatten_stage(partition, flatten_dataframe(partition, 0))
    /\ partition' = IF result'.exc # "none" THEN partition ELSE result'.df
    /\ pc' = "staged"
    /\ UNCHANGED <<data_frame, second, dsVars, clsVars, args, daskVars>>

NextFlatten == CallFlatten \/ CallFlattenAgain \/ FlattenStage

SpecFlatten == InitFlatten /\ [][NextFlatten]_vars

\* every pandas call of the explored tables is one the model covers
Modelled == result.exc # "Unmodelled" /\ second.exc # "Unmodelled"

---------------------------------------------------------------------------
(* sources/datasource.py: the mapped view. A mapping is the sequence of the *)
(* dict's items; an item's data_features is a string or a list of strings.  *)

\* lines 173-174: a string becomes the list of it
FeatureList(data_features) == data_features.names

\* the cell of column name in row i
CellOf(df, name, i) == ColumnOf(df, name)[i]

\* _to_dict_or_any(value), value the row i of self._df.loc[:, names]
_to_dict_or_any(df, names, i) ==
    IF Len(names) > 1
    THEN Dict(AppendNew(<<>>, names),
              [j \in 1..Len(AppendNew(<<>>, names)) |->
                 CellOf(df, AppendNew(<<>>, names)[j], i)])
    ELSE CellOf(df, names[1], i)

\* lines 176-181 with the features read from the copy that is being built
MapEntryFromCopy(source, mapped_dataframe, parameter_name, names) ==
    IF \E x \in 1..Len(names) : names[x] \notin Range(mapped_dataframe.columns)
    THEN [exc |-> "KeyError", named |-> names, df |-> NoFrame]
    ELSE [exc |-> "none", named |-> <<>>,
          df |-> SetColumn(mapped_dataframe, parameter_name,
                           [i \in 1..Len(mapped_dataframe.index) |->
                              _to_dict_or_any(mapped_dataframe, names, i)])]

\* lines 176-181: one item of the mapping, source being self._df
MapEntry(source, mapped_dataframe, parameter_name, names) ==
    IF \E x \in 1..Len(names) : names[x] \notin Range(source.columns)
    THEN [exc |-> "KeyError", named |-> names, df |-> NoFrame]
    ELSE [exc |-> "none", named |-> <<>>,
          df |-> SetColumn(mapped_dataframe, parameter_name,
                           [i \in 1..Len(source.index) |->
                              _to_dict_or_any(source, names, i)])]

\* lines 170-181: the items from the n-th on, r the outcome so far
RECURSIVE MapEntries(_, _, _, _)
MapEntries(source, r, items, n) ==
    IF n > Len(items) \/ r.exc # "none" THEN r
    ELSE MapEntries(source,
                    MapEntry(source, r.df, items[n].parameter_name,
                             FeatureList(items[n].data_features)),
                    items, n + 1)

\* line 183: mapped_dataframe.loc[:, list(self.mapping.keys())]
SelectMapped(r, items) ==
    IF r.exc # "none" THEN r
    ELSE [r EXCEPT !.df = SelectColumns(r.df, [n \in 1..Len(items) |->
                                                 items[n].parameter_name])]

\* the check of lines 164-165 left out
to_mapped_dataframe_unchecked(source, items) ==
    SelectMapped(MapEntries(source, [exc |-> "none", named |-> <<>>, df |-> source],
                            items, 1),
                 items)

\* DataSource.to_mapped_dataframe
to_mapped_dataframe(source, items) ==
    IF items = <<>>
    THEN [exc |-> "ValueError", named |-> <<>>, df |-> NoFrame]
    ELSE SelectMapped(MapEntries(source,
                                 [exc |-> "none", named |-> <<>>, df |-> source],
                                 items, 1),
                      items)

---------------------------------------------------------------------------
(* The DataSources the mapped view is asked of *)

SourceTables ==
    { [columns |-> <<"a", "b", "path">>, index |-> <<0, 1>>,
       data |-> << <<Scalar(1), Scalar(2)>>, <<Scalar(3), Scalar(4)>>,
                   <<Scalar(9), Scalar(9)>> >>],
      [columns |-> <<"b", "a">>, index |-> <<7>>,
       data |-> << <<Scalar(5)>>, <<Scalar(6)>> >>] }

\* the source columns a mapping may name: x is in no table
FeatureNames == {"a", "b", "x"}

\* the logical fields: a is the name of a source column too
ParameterNames == {"tokens", "a"}

NameLists == UNION { [1..n -> FeatureNames] : n \in 1..MaxFeatures }

DataFeatures ==
    { [is_str |-> TRUE, names |-> <<f>>] : f \in FeatureNames }
    \cup { [is_str |-> FALSE, names |-> l] : l \in NameLists }

Items == [parameter_name : ParameterNames, data_features : DataFeatures]

Mappings ==
    {<<>>} \cup { <<e>> : e \in Items }
    \cup { m \in Items \X Items : m[1].parameter_name # m[2].parameter_name }

InitMapped ==
    /\ pc = "constructed"
    /\ _df \in SourceTables
    /\ mapping \in Mappings
    /\ out = NoOut
    /\ data_frame = NoFrame
    /\ partition = NoFrame
    /\ result = NoResult
    /\ second = NoResult
    /\ SUPPORTED_FORMATS = BuiltinFormats
    /\ reader_calls = <<>>
    /\ registrations = <<>>
    /\ args = NoArgs
    /\ NoDask

\* out = self.to_mapped_dataframe()
ToMappedDataframe ==
    /\ pc = "constructed"
    /\ out' = to_mapped_dataframe(_df, mapping)
    /\ pc' = "mapped"
    /\ UNCHANGED <<flatVars, clsVars, _df, mapping, args, daskVars>>

NextMapped == ToMappedDataframe

SpecMapped == InitMapped /\ [][NextMapped]_vars

---------------------------------------------------------------------------
(* Claims about flatten_dataframe *)

\* a value that is nested structure: a dict, or a list with a dict or list in it
HoldsStructure(v) ==
    \/ Tag(v) = "d"
    \/ Tag(v) = "l" /\ \E i \in 1..Len(v[2]) : Tag(v[2][i]) \in {"d", "l"}

\* the first non-missing value of a column, None when there is none
FirstPresent(values) ==
    IF \E i \in 1..Len(values) : Tag(values[i]) \notin {"none", "nan"}
    THEN values[CHOOSE i \in 1..Len(values) :
                  /\ Tag(values[i]) \notin {"none", "nan"}
                  /\ \A x \in 1..(i - 1) : Tag(values[x]) \in {"none", "nan"}]
    ELSE <<"none">>

\* the input holds structure somewhere / nowhere
InputIsFlat ==
    \A j \in 1..Len(data_frame.data) : \A i \in 1..Len(data_frame.index) :
        ~HoldsStructure(data_frame.data[j][i])

Returned == pc = "flattened" /\ result.exc = "none"

\* C1 as stated: the table flatten_dataframe returns has no column that holds,
\* in any row, a dict or a list containing a dict or list element.
C1_NoNestedCell ==
    Returned =>
        \A j \in 1..Len(result.df.columns) : \A i \in 1..Len(result.df.index) :
            ~HoldsStructure(result.df.data[j][i])

\* C1 as amended: the table flatten_dataframe returns has no column whose first
\* non-missing value is a dict or a list containing a dict or list element.
C1_NoNestedColumn ==
    Returned =>
        \A j \in 1..Len(result.df.columns) :
            ~HoldsStructure(FirstPresent(result.df.data[j]))

\* a table with nested content two levels deep was flattened and returned
C1_Witness == Returned /\ result.calls >= 2

\* the deepest nesting of the input's cells
InputDepth ==
    LET d(j) == MaxDepth(data_frame.data[j]) IN
    IF Len(data_frame.data) = 0 THEN 0
    ELSE CHOOSE m \in {d(j) : j \in 1..Len(data_frame.data)} :
            \A j \in 1..Len(data_frame.data) : d(j) <= m

\* C2: flatten_dataframe terminates on every table of finite nesting depth, and
\* its nested recursive calls number at most the deepest nesting of a cell.
C2_BoundedRecursion ==
    pc = "flattened" =>
        /\ result.exc # "RecursionError"
        /\ result.calls <= InputDepth

\* C3: flattening is idempotent: a table with no dict or structured-list cell is
\* returned unchanged, and flattening a flattened table returns it unchanged.
C3_Idempotent ==
    /\ (pc = "flattened" /\ InputIsFlat) =>
           (result.exc = "none" /\ result.df = data_frame)
    /\ pc = "reflattened" => (second.exc = "none" /\ second.df = result.df)

\* a table with nested content was flattened, and the result flattened again
C3_Witness == pc = "reflattened" /\ result.calls >= 1 /\ second.exc = "none"

\* column c of the input
InputColumn == data_frame.data[1]

\* the cell of the returned table in the column named name, row i
ResultCell(name, i) ==
    result.df.data[CHOOSE j \in 1..Len(result.df.columns) :
                     result.df.columns[j] = name][i]

\* c is a dict-valued column, each of its rows a dict of numbers, empty or missing
FlatDictColumn ==
    /\ Tag(FirstPresent(InputColumn)) = "d"
    /\ \A i \in 1..Len(InputColumn) :
          \/ Tag(InputColumn[i]) \in {"none", "nan"}
          \/ /\ Tag(InputColumn[i]) = "d"
             /\ \A x \in 1..Len(InputColumn[i][3]) : Tag(InputColumn[i][3][x]) = "s"

\* the keys that occur in any row's dict
InputKeys ==
    UNION { Range(InputColumn[i][2]) :
              i \in {x \in 1..Len(InputColumn) : Tag(InputColumn[x]) = "d"} }

\* C4, for a column of flat dicts: the output has no column c and a column c.k
\* for every key k of any row's dict, keeps the row index, holds in row i of c.k
\* the value of row i's dict at k, and treats a missing or empty row as an empty
\* dict, all its c.k values missing.
C4_DictColumnExpanded ==
    (pc = "flattened" /\ FlatDictColumn) =>
        /\ result.exc = "none"
        /\ "c" \notin Range(result.df.columns)
        /\ result.df.index = data_frame.index
        /\ \A k \in InputKeys :
              /\ ("c." \o k) \in Range(result.df.columns)
              /\ \A i \in 1..Len(InputColumn) :
                    IF Tag(InputColumn[i]) = "d" /\ k \in Range(InputColumn[i][2])
                    THEN ResultCell("c." \o k, i) = DictGet(InputColumn[i], k, NaN)
                    ELSE Tag(ResultCell("c." \o k, i)) \in {"none", "nan"}

\* c is a list-of-structured column, each of its rows a list of dicts or missing
RecordListColumn ==
    /\ HoldsStructure(FirstPresent(InputColumn))
    /\ \A i \in 1..Len(InputColumn) :
          \/ Tag(InputColumn[i]) \in {"none", "nan"}
          \/ /\ Tag(InputColumn[i]) = "l"
             /\ \A x \in 1..Len(InputColumn[i][2]) : Tag(InputColumn[i][2][x]) = "d"

C8_InputUnchanged ==
    [][partition' = partition /\ data_frame' = data_frame]_vars

---------------------------------------------------------------------------
(* Claims about the mapped view *)

\* the cell of self._df in the column named name, row i
SourceCell(name, i) ==
    _df.data[CHOOSE j \in 1..Len(_df.columns) : _df.columns[j] = name][i]

NamesOf(n) == mapping[n].data_features.names

Missing(n) == \E x \in 1..Len(NamesOf(n)) : NamesOf(n)[x] \notin Range(_df.columns)

\* v is what the claim says of a logical column that names the columns names
IsMappedValue(v, names, i) ==
    IF Len(names) = 1 THEN v = SourceCell(names[1], i)
    ELSE /\ Tag(v) = "d"
         /\ Range(v[2]) = Range(names)
         /\ Len(v[2]) = Cardinality(Range(names))
         /\ \A x \in 1..Len(v[2]) : v[3][x] = SourceCell(v[2][x], i)

\* C6: for a non-empty mapping whose source columns all exist, the mapped table
\* has exactly the mapping's keys as columns, and in each row a logical column
\* holds the single source value, or a record of the named source columns'
\* values, always those of the original table.
C6_MappedView ==
    (pc = "mapped" /\ mapping # <<>> /\ \A n \in 1..Len(mapping) : ~Missing(n)) =>
        /\ out.exc = "none"
        /\ out.df.columns = [n \in 1..Len(mapping) |-> mapping[n].parameter_name]
        /\ out.df.index = _df.index
        /\ \A n \in 1..Len(mapping) : \A i \in 1..Len(_df.index) :
              IsMappedValue(out.df.data[n][i], NamesOf(n), i)

\* a mapping whose first key is the name of a source column that its second
\* entry reads, beside another one
C6_Witness ==
    /\ pc = "mapped" /\ out.exc = "none" /\ Len(mapping) = 2
    /\ mapping[1].parameter_name = "a"
    /\ NamesOf(1) = <<"b">>
    /\ NamesOf(2) = <<"a", "b">>

---------------------------------------------------------------------------
(* The DataSource class: formats are registered, then a DataSource is        *)
(* constructed                                                              *)

csv_key == <<"c", "s", "v">>
new_key == <<"n", "e", "w">>
zip_key == <<"z", "i", "p">>

\* a word as it is, in capitals, and with whitespace around it
Variants(word) == {word, upper(word), <<" ">> \o word \o <<"\t">>}

FormatChoices ==
    {<<"none">>, <<"str", <<>>>>} \cup
    {<<"str", f>> : f \in Variants(csv_key) \cup Variants(new_key) \cup Variants(zip_key)}

SourceChoices ==
    {<<"none">>,
     <<"str", <<"d", ".", "c", "s", "v">>>>,
     <<"str", <<"x", ".", "y", "/", "N", "E", "W">>>>,
     <<"list", << <<"d", ".", "c", "s", "v">>, <<"e", ".", "c", "s", "v">> >> >>,
     <<"list", << <<"d", ".", "c", "s", "v">>, <<"d", ".", "z", "i", "p">> >> >>}

AttributeChoices == {<<"none">>, <<"dict", {<<"dtype", "object">>, <<"sep", ";">>}>>}

MappingChoices ==
    {<<"none">>,
     <<"dict", <<[parameter_name |-> "tokens",
                  data_features |-> [is_str |-> TRUE, names |-> <<"a">>]]>>>>}

KeyChoices == Variants(new_key) \cup {csv_key, upper(csv_key)}

Registrations ==
    {[parser |-> "parser_a", default_params |-> <<"none">>],
     [parser |-> "parser_b", default_params |-> <<"dict", {<<"sep", ",">>}>>]}

\* what a reader returns: a table whose column names are as the file has them
RawTables ==
    {[columns |-> << <<" ", "a">>, <<"b", " ">> >>, index |-> <<0, 1>>,
      data |-> << <<Scalar(1), NaN>>, <<Scalar(2), None>> >>],
     [columns |-> << ID, <<"a">> >>, index |-> <<0, 1>>,
      data |-> << <<Scalar(7), Scalar(8)>>, <<Scalar(1), NaN>> >>],
     [columns |-> << <<" ", "i", "d">>, <<"a">> >>, index |-> <<0>>,
      data |-> << <<Scalar(5)>>, <<NaN>> >>]}

InitFormats ==
    /\ pc = "class"
    /\ SUPPORTED_FORMATS = BuiltinFormats
    /\ reader_calls = <<>>
    /\ registrations = <<>>
    /\ args = NoArgs
    /\ NoDask
    /\ data_frame = NoFrame /\ partition = NoFrame
    /\ result = NoResult /\ second = NoResult
    /\ _df = NoFrame /\ mapping = <<>> /\ out = NoOut

AddSupportedFormat ==
    /\ pc = "class"
    /\ Len(registrations) < MaxAdds
    /\ \E format_key \in KeyChoices, r \in Registrations :
          /\ SUPPORTED_FORMATS' =
                add_supported_format(SUPPORTED_FORMATS, format_key, r.parser,
                                     r.default_params)
          /\ registrations' =
                Append(registrations,
                       [format_key |-> format_key, parser |-> r.parser,
                        default_params |-> r.default_params])
    /\ UNCHANGED <<pc, flatVars, dsVars, reader_calls, args, daskVars>>

Construct ==
    /\ pc = "class"
    /\ pc' = "constructed"
    /\ \E source \in SourceChoices, attributes \in AttributeChoices,
          items \in MappingChoices, format \in FormatChoices, raw \in RawTables :
          out' = [args |-> [source |-> source, format |-> format,
                            attributes |-> attributes],
                  ret |-> __init__(SUPPORTED_FORMATS, source, attributes, items, format, raw)]
    /\ reader_calls' = IF out'.ret.call.called
                       THEN Append(reader_calls, out'.ret.call)
                       ELSE reader_calls
    /\ _df' = out'.ret.df
    /\ mapping' = out'.ret.mapping
    /\ UNCHANGED <<flatVars, SUPPORTED_FORMATS, registrations, args, daskVars>>

NextFormats == AddSupportedFormat \/ Construct

SpecFormats == InitFormats /\ [][NextFormats]_vars

---------------------------------------------------------------------------
(* Claims about the format registry *)

Constructing == pc = "constructed"

\* the format the constructor looks the reader up by
Requested == RequestedFormat(out.args.source, out.args.format)

HasRequested == Constructing /\ Requested.exc = "none" /\ Requested.format[1] = "str"

Unregistered ==
    HasRequested /\ strip(lower(Requested.format[2])) \notin Range(KeysOf(SUPPORTED_FORMATS))

\* C9: constructing a DataSource whose requested format, given or inferred
\* from the source, is not a registered key once lowered and trimmed fails
\* with a TypeError that names the format as requested and lists the
\* registered keys in their order, and no reader is invoked.
C9_UnknownFormatTypeError ==
    Unregistered =>
        /\ out.ret.exc = "TypeError"
        /\ out.ret.named = Requested.format[2]
        /\ out.ret.supported = KeysOf(SUPPORTED_FORMATS)
        /\ ~out.ret.call.called
        /\ reader_calls = <<>>
        /\ _df = NoFrame

\* an unregistered format inferred from the source, after a registration
C9_Witness ==
    /\ Unregistered
    /\ out.args.format = <<"none">>
    /\ Len(SUPPORTED_FORMATS) > Len(BuiltinFormats)
    /\ out.ret.exc = "TypeError"
    /\ out.ret.named = <<"x", ".", "y", "/", "N", "E", "W">>

\* C10: for every registered key K, constructing a DataSource with a format
\* string that equals K after trimming and ignoring letter case selects the
\* reader registered under K.
C10_KeysCaseInsensitive ==
    \A n \in 1..Len(SUPPORTED_FORMATS) :
        (/\ Constructing
         /\ out.args.format[1] = "str"
         /\ lower(strip(out.args.format[2])) = lower(SUPPORTED_FORMATS[n].key))
        => /\ out.ret.exc = "none"
           /\ out.ret.call.parser = SUPPORTED_FORMATS[n].parser

\* the last call of add_supported_format with the key, 0 when there is none
LastRegistration(key) ==
    IF \E i \in 1..Len(registrations) : registrations[i].format_key = key
    THEN CHOOSE i \in 1..Len(registrations) :
            /\ registrations[i].format_key = key
            /\ \A x \in (i + 1)..Len(registrations) : registrations[x].format_key # key
    ELSE 0

\* C11: after any sequence of add_supported_format calls the registry has one
\* entry per key, the keys are the built-in ones and the registered ones, a
\* registered key has the (reader, default parameters) pair of its most
\* recent registration, None standing for no parameters, and a built-in key
\* that was never registered again has its built-in entry.
C11_LastRegistrationWins ==
    /\ Cardinality(Range(KeysOf(SUPPORTED_FORMATS))) = Len(SUPPORTED_FORMATS)
    /\ Range(KeysOf(SUPPORTED_FORMATS)) =
           Range(KeysOf(BuiltinFormats)) \cup
           {registrations[i].format_key : i \in 1..Len(registrations)}
    /\ \A n \in 1..Len(SUPPORTED_FORMATS) :
           IF LastRegistration(SUPPORTED_FORMATS[n].key) = 0
           THEN SUPPORTED_FORMATS[n] \in Range(BuiltinFormats)
           ELSE /\ SUPPORTED_FORMATS[n].parser =
                       registrations[LastRegistration(SUPPORTED_FORMATS[n].key)].parser
                /\ SUPPORTED_FORMATS[n].default_params =
                       OrEmpty(registrations[LastRegistration(SUPPORTED_FORMATS[n].key)]
                                   .default_params)

\* a key was registered twice, with different readers, and csv never
C11_Witness ==
    /\ Len(registrations) = 2
    /\ registrations[1].format_key = registrations[2].format_key
    /\ registrations[1].parser = "parser_a"
    /\ registrations[2].parser = "parser_b"
    /\ EntryOf(SUPPORTED_FORMATS, registrations[2].format_key).parser = "parser_b"
    /\ EntryOf(SUPPORTED_FORMATS, csv_key) \in Range(BuiltinFormats)

\* what __format_from_source takes from one path: the extension without its
\* dot, or the whole path when it has no extension
FormatOfPath(path) ==
    IF splitext(path).extension # <<>> THEN Tail(splitext(path).extension) ELSE path

ExtensionOfPath(path) ==
    IF splitext(path).extension # <<>> THEN Tail(splitext(path).extension) ELSE <<>>

SourcePaths == PathsOf(out.args.source)

FormatGiven == out.args.format[1] = "str" /\ out.args.format[2] # <<>>

Inferring == Constructing /\ ~FormatGiven /\ Given(out.args.source)

\* the constructor went on with format f: the reader registered under it was
\* called, or the TypeError of an unregistered format names it
WentOnWith(f) ==
    IF strip(lower(f)) \in Range(KeysOf(SUPPORTED_FORMATS))
    THEN /\ out.ret.exc = "none"
         /\ out.ret.call.parser = EntryOf(SUPPORTED_FORMATS, strip(lower(f))).parser
    ELSE /\ out.ret.exc = "TypeError"
         /\ out.ret.named = f

\* the construction failed on the source's formats, before any reader
FailedNaming(formats) ==
    /\ out.ret.exc = "TypeError"
    /\ out.ret.formats = formats
    /\ out.ret.named = <<>>
    /\ ~out.ret.call.called
    /\ reader_calls = <<>>

\* C12 as stated: with no format and a source, the format is the common file
\* extension of the paths; paths of different extensions fail with a
\* TypeError naming the set of extensions, no reader invoked; a given format
\* is used as given.
C12_CommonExtension ==
    /\ Inferring =>
          LET extensions == {ExtensionOfPath(SourcePaths[i]) : i \in 1..Len(SourcePaths)}
          IN  IF Cardinality(extensions) = 1
              THEN WentOnWith(CHOOSE e \in extensions : TRUE)
              ELSE FailedNaming(extensions)
    /\ (Constructing /\ FormatGiven) => WentOnWith(out.args.format[2])

\* C12, amended: with no format and a source, each path gives its extension
\* without the dot or, having no extension, the whole path; when all paths
\* give the same, that is the format, otherwise construction fails with a
\* TypeError naming the set of what the paths gave and no reader is invoked;
\* a given, non-empty format is used as given, the paths not looked at.
C12_FormatFromSource ==
    /\ Inferring =>
          LET formats == {FormatOfPath(SourcePaths[i]) : i \in 1..Len(SourcePaths)}
          IN  IF Cardinality(formats) = 1
              THEN WentOnWith(CHOOSE f \in formats : TRUE)
              ELSE FailedNaming(formats)
    /\ (Constructing /\ FormatGiven) => WentOnWith(out.args.format[2])

\* two paths of different extensions, after a registration
C12_Witness ==
    /\ Inferring
    /\ Len(SourcePaths) = 2
    /\ out.ret.exc = "TypeError"
    /\ out.ret.formats = {csv_key, zip_key}
    /\ Len(registrations) > 0

\* the table the reader returned to the constructor
Read == out.ret.call.returned

Loaded == Constructing /\ out.ret.exc = "none"

\* the rows of the table read that are not entirely empty
KeptRows ==
    SelectSeq([i \in 1..Len(Read.index) |-> i],
              LAMBDA i : \E j \in 1..Len(Read.columns) : ~isna(Read.data[j][i]))

\* C14: after a DataSource is constructed, whatever the format, no column
\* name of to_dataframe() begins or ends with whitespace; the columns are
\* those read, stripped, in their order, but for one whose stripped name is
\* id, which is no column any more: its values are the row keys.
C14_ColumnsStripped ==
    Loaded =>
        /\ \A j \in 1..Len(_df.columns) :
              \/ _df.columns[j] = <<>>
              \/ /\ _df.columns[j][1] \notin Whitespace
                 /\ _df.columns[j][Len(_df.columns[j])] \notin Whitespace
        /\ _df.columns =
              SelectSeq([j \in 1..Len(Read.columns) |-> strip(Read.columns[j])],
                        LAMBDA c : c # <<"i", "d">>)
        /\ \A j \in 1..Len(Read.columns) :
              strip(Read.columns[j]) = <<"i", "d">> =>
                  /\ <<"i", "d">> \notin Range(_df.columns)
                  /\ _df.index = [n \in 1..Len(KeptRows) |-> Read.data[j][KeptRows[n]][2]]

\* a column read as " id" became the row key, under a registered reader
C14_Witness ==
    /\ Loaded
    /\ Read.columns[1] = <<" ", "i", "d">>
    /\ _df.columns = << <<"a">> >>
    /\ _df.index = <<5>>
    /\ out.ret.call.parser = "parser_b"

\* column names with whitespace on both sides were read, and an empty row
C14_WitnessStripped ==
    /\ Loaded
    /\ Read.columns = << <<" ", "a">>, <<"b", " ">> >>
    /\ _df.columns = << <<"a">>, <<"b">> >>
    /\ Len(_df.index) = 1

---------------------------------------------------------------------------
(* sources/datasource.py: the bags of row dictionaries.  A string in a cell  *)
(* is <<"str", chars>>.                                                     *)

Str(chars) == <<"str", chars>>

\* the names readers.py gives the columns that tell where a row comes from
RESOURCE == <<"r", "e", "s", "o", "u", "r", "c", "e">>
PATH_COLUMN_NAME == <<"p", "a", "t", "h">>

\* str(None)
StrNone == Str(<<"N", "o", "n", "e">>)

\* str(default_path), default_path <<"none">> or <<"str", chars>>
StrOf(default_path) == IF default_path[1] = "none" THEN StrNone ELSE Str(default_path[2])

\* column.replace(".", "_")
Sanitized(column) == [i \in 1..Len(column) |-> IF column[i] = "." THEN "_" ELSE column[i]]

\* the value dict(pairs) has under key: that of the last pair of the key
LastValue(ks, vs, key) ==
    vs[CHOOSE i \in 1..Len(ks) :
          ks[i] = key /\ \A x \in (i + 1)..Len(ks) : ks[x] # key]

\* dict(zip(ks, vs)): zip stops at the shorter, a key keeps its first place
DictOfPairs(ks, vs) ==
    Dict(AppendNew(<<>>, SubSeq(ks, 1, IF Len(ks) < Len(vs) THEN Len(ks) ELSE Len(vs))),
         [n \in 1..Len(AppendNew(<<>>, SubSeq(ks, 1, IF Len(ks) < Len(vs) THEN Len(ks)
                                                     ELSE Len(vs)))) |->
            LastValue(SubSeq(ks, 1, IF Len(ks) < Len(vs) THEN Len(ks) ELSE Len(vs)), vs,
                      AppendNew(<<>>, SubSeq(ks, 1, IF Len(ks) < Len(vs) THEN Len(ks)
                                                    ELSE Len(vs)))[n])])

\* data[key] = value
DictSet(d, key, value) ==
    IF key \in Range(Keys(d))
    THEN Dict(Keys(d), [n \in 1..Len(Keys(d)) |->
                          IF Keys(d)[n] = key THEN value ELSE Vals(d)[n]])
    ELSE Dict(Append(Keys(d), key), Append(Vals(d), value))

\* lines 207-209, data the dict of line 204
WithResource(data, default_path) ==
    DictSet(data, RESOURCE,
            DictGet(data, RESOURCE, DictGet(data, PATH_COLUMN_NAME, StrOf(default_path))))

\* DataSource._row2dict(row, columns, default_path)
_row2dict(row, columns, default_path) ==
    WithResource(DictOfPairs(<<ID>> \o [j \in 1..Len(columns) |-> Sanitized(columns[j])],
                             row),
                 default_path)

\* df.to_bag(index=True): one tuple for each row, the index first
RowTuples(df) ==
    [i \in 1..Len(df.index) |->
        <<Scalar(df.index[i])>> \o [j \in 1..Len(df.columns) |-> df.data[j][i]]]

\* lines 133-135 and 147-148: df.to_bag(index=True).map(self._row2dict,
\* columns=dict_keys); default_path is not passed, so it is None
BagOf(df) ==
    [i \in 1..Len(df.index) |->
        _row2dict(RowTuples(df)[i], [j \in 1..Len(df.columns) |-> strip(df.columns[j])],
                  <<"none">>)]

\* DataSource.to_bag
to_bag(df) == [exc |-> "none", named |-> <<>>, df |-> df, rows |-> BagOf(df)]

\* lines 146-148, mapped the outcome of to_mapped_dataframe
BagOfMapped(mapped) ==
    IF mapped.exc # "none"
    THEN [exc |-> mapped.exc, named |-> mapped.named, df |-> NoFrame, rows |-> <<>>]
    ELSE [exc |-> "none", named |-> <<>>, df |-> mapped.df, rows |-> BagOf(mapped.df)]

\* DataSource.to_mapped_bag
to_mapped_bag(df, items) == BagOfMapped(to_mapped_dataframe(df, items))

\* The DataSources the bags are asked of
A_COLUMN == <<"a">>
AB_COLUMN == <<"a", ".", "b">>
CSV_PATH == <<"d", ".", "c", "s", "v">>

BagColumns ==
    {<<A_COLUMN>>, <<A_COLUMN, PATH_COLUMN_NAME>>,
     <<AB_COLUMN, PATH_COLUMN_NAME, RESOURCE>>, <<A_COLUMN, RESOURCE>>}

BagCells(column) ==
    IF column = PATH_COLUMN_NAME THEN {Str(CSV_PATH)}
    ELSE IF column = RESOURCE THEN {Str(<<"i", "d", "x">>), None}
    ELSE {Scalar(1), NaN}

BagTables ==
    UNION { UNION { { [columns |-> cols, index |-> default_index(n), data |-> data] :
                        data \in { d \in [1..Len(cols) -> [1..n -> UNION {BagCells(c) :
                                                                    c \in Range(cols)}]] :
                                     \A j \in 1..Len(cols), i \in 1..n :
                                         d[j][i] \in BagCells(cols[j]) } } :
                    cols \in BagColumns } :
            n \in 1..MaxRows }

BagItem(parameter_name, names) ==
    [parameter_name |-> parameter_name,
     data_features |-> [is_str |-> FALSE, names |-> names]]

BagMappings ==
    {<<>>,
     <<BagItem(<<"t">>, <<A_COLUMN>>)>>,
     <<BagItem(<<"t">>, <<A_COLUMN, PATH_COLUMN_NAME>>)>>,
     <<BagItem(<<"t">>, <<A_COLUMN>>), BagItem(PATH_COLUMN_NAME, <<PATH_COLUMN_NAME>>)>>,
     <<BagItem(RESOURCE, <<A_COLUMN>>)>>}

InitBag ==
    /\ pc = "constructed"
    /\ _df \in BagTables
    /\ mapping \in BagMappings
    /\ args \in {[source |-> <<"none">>], [source |-> <<"str", CSV_PATH>>]}
    /\ out = NoOut
    /\ data_frame = NoFrame /\ partition = NoFrame
    /\ result = NoResult /\ second = NoResult
    /\ SUPPORTED_FORMATS = BuiltinFormats
    /\ reader_calls = <<>>
    /\ registrations = <<>>
    /\ NoDask

ToBag ==
    /\ pc = "constructed"
    /\ out' = to_bag(_df)
    /\ pc' = "bag"
    /\ UNCHANGED <<flatVars, clsVars, _df, mapping, args, daskVars>>

ToMappedBag ==
    /\ pc = "constructed"
    /\ out' = to_mapped_bag(_df, mapping)
    /\ pc' = "mapped_bag"
    /\ UNCHANGED <<flatVars, clsVars, _df, mapping, args, daskVars>>

NextBag == ToBag \/ ToMappedBag

SpecBag == InitBag /\ [][NextBag]_vars

\* Claims about the bags

Bagged == pc \in {"bag", "mapped_bag"} /\ out.exc = "none"

\* C15: every row dictionary of to_bag and to_mapped_bag has a resource
\* value: that of the row's resource column if the table has one, else that
\* of its path column, else the source path the DataSource was declared with.
C15_ResourceCarried ==
    Bagged =>
        \A i \in 1..Len(out.rows) :
            /\ RESOURCE \in Range(Keys(out.rows[i]))
            /\ IF RESOURCE \in Range(out.df.columns)
               THEN DictGet(out.rows[i], RESOURCE, None) = ColumnOf(out.df, RESOURCE)[i]
               ELSE IF PATH_COLUMN_NAME \in Range(out.df.columns)
               THEN DictGet(out.rows[i], RESOURCE, None) =
                        ColumnOf(out.df, PATH_COLUMN_NAME)[i]
               ELSE args.source[1] = "str" =>
                        DictGet(out.rows[i], RESOURCE, None) = Str(args.source[2])

---------------------------------------------------------------------------
(* sources/utils.py: make_paths_relative.  A configuration is a dict whose   *)
(* keys are strings and whose values are strings <<"str", chars>>, numbers,  *)
(* lists and dicts.                                                         *)

MaxNesting == 2   \* dictionaries inside the configuration dictionary

\* extension_from_path(path) of a string
extension_from_path(path) ==
    IF splitext(path).extension = <<>> THEN <<>>
    ELSE Tail(lower(splitext(path).extension))

\* string.startswith(prefix)
startswith(string, prefix) ==
    Len(string) >= Len(prefix) /\ SubSeq(string, 1, Len(prefix)) = prefix

\* line 87
URI_SCHEMES ==
    {<<"h", "t", "t", "p", ":", "/", "/">>,
     <<"h", "t", "t", "p", "s", ":", "/", "/">>,
     <<"f", "t", "p", ":", "/", "/">>,
     <<"s", "f", "t", "p", ":", "/", "/">>,
     <<"s", "3", ":", "/", "/">>,
     <<"h", "d", "f", "s", ":", "/", "/">>,
     <<"g", "s", ":", "/", "/">>}

\* os.path.isabs(string)
isabs(string) == string # <<>> /\ string[1] = "/"

\* os.path.join(a, b)
join(a, b) ==
    IF isabs(b) THEN b
    ELSE IF a = <<>> \/ a[Len(a)] = "/" THEN a \o b
    ELSE a \o <<"/">> \o b

\* is_relative_file_system_path(string)
is_relative_file_system_path(string) ==
    /\ Tag(string) = "str"
    /\ extension_from_path(string[2]) # <<>>
    /\ \A scheme \in URI_SCHEMES : ~startswith(lower(string[2]), scheme)
    /\ ~isabs(string[2])

\* lines 59-64: the elements of a list value
RelativeElements(yaml_dirname, value) ==
    List([n \in 1..Len(Elems(value)) |->
            IF is_relative_file_system_path(Elems(value)[n])
            THEN Str(join(yaml_dirname, Elems(value)[n][2]))
            ELSE Elems(value)[n]])

\* `if path_keys and key not in path_keys: continue`, path_keys None or a list
Skipped(key, path_keys) ==
    path_keys[1] = "list" /\ path_keys[2] # <<>> /\ key \notin Range(path_keys[2])

\* make_paths_relative(yaml_dirname, cfg_dict, path_keys): cfg_dict as the
\* call leaves it
RECURSIVE make_paths_relative(_, _, _)
make_paths_relative(yaml_dirname, cfg_dict, path_keys) ==
    Dict(Keys(cfg_dict),
         [n \in 1..Len(Keys(cfg_dict)) |->
            IF IsDict(Vals(cfg_dict)[n])
            THEN \* the dict is changed in place, whatever its key
                 make_paths_relative(yaml_dirname, Vals(cfg_dict)[n], path_keys)
            ELSE IF Skipped(Keys(cfg_dict)[n], path_keys)
            THEN Vals(cfg_dict)[n]
            ELSE IF is_relative_file_system_path(Vals(cfg_dict)[n])
            THEN Str(join(yaml_dirname, Vals(cfg_dict)[n][2]))
            ELSE IF IsList(Vals(cfg_dict)[n])
            THEN RelativeElements(yaml_dirname, Vals(cfg_dict)[n])
            ELSE Vals(cfg_dict)[n]])

\* The configurations make_paths_relative is given
RELATIVE_PATH == <<"a", ".", "c", "s", "v">>

PathStrings ==
    {RELATIVE_PATH,
     <<"d", "/", "a", ".", "c", "s", "v">>,
     <<"/", "a", ".", "c", "s", "v">>,
     <<"s", "3", ":", "/", "/", "b", ".", "c", "s", "v">>,
     <<"S", "3", ":", "/", "/", "b", ".", "c", "s", "v">>,
     <<"d", "a", "t", "a">>,
     <<"a", ".">>,
     <<".", "c", "s", "v">>,
     <<>>}

ConfigKeys == {"path", "other"}

\* line 227 of datasource.py
PATH_KEYS == <<"path", "metadata_file">>

PlainValues ==
    {Str(chars) : chars \in PathStrings} \cup {Scalar(1)}
    \cup {List(<<v>>) : v \in {Str(RELATIVE_PATH), Str(<<"d", "a", "t", "a">>), Scalar(1)}}
    \cup {List(<<Str(<<"/", "a", ".", "c", "s", "v">>), Str(RELATIVE_PATH)>>),
          List(<<Dict(<<"path">>, <<Str(RELATIVE_PATH)>>)>>)}

RECURSIVE ConfigValues(_)
ConfigValues(nesting) ==
    IF nesting = 0 THEN PlainValues
    ELSE PlainValues \cup
         {Dict(<<key>>, <<value>>) : key \in ConfigKeys, value \in ConfigValues(nesting - 1)}

Configs ==
    {Dict(<<"path", "other">>, <<v, w>>) :
        v \in ConfigValues(MaxNesting - 1), w \in ConfigValues(MaxNesting - 1)}

InitPaths ==
    /\ pc = "loaded"
    /\ args \in [yaml_dirname : {<<>>, <<"y">>}, cfg_dict : Configs,
                 path_keys : {<<"none">>, <<"list", PATH_KEYS>>}]
    /\ out = NoOut
    /\ _df = NoFrame /\ mapping = <<>>
    /\ data_frame = NoFrame /\ partition = NoFrame
    /\ result = NoResult /\ second = NoResult
    /\ SUPPORTED_FORMATS = BuiltinFormats
    /\ reader_calls = <<>>
    /\ registrations = <<>>
    /\ NoDask

MakePathsRelative ==
    /\ pc = "loaded"
    /\ out' = make_paths_relative(args.yaml_dirname, args.cfg_dict, args.path_keys)
    /\ pc' = "relative"
    /\ UNCHANGED <<flatVars, clsVars, _df, mapping, args, daskVars>>

NextPaths == MakePathsRelative

SpecPaths == InitPaths /\ [][NextPaths]_vars

\* Claims about make_paths_relative

\* a key the call recognizes as one of paths: any key when none are named
IsPathKey(key) ==
    \/ args.path_keys[1] = "none"
    \/ args.path_keys[2] = <<>>
    \/ key \in Range(args.path_keys[2])

\* a string with a file extension, no URI scheme in front, not absolute
IsRelativePath(v) ==
    /\ Tag(v) = "str"
    /\ Len(splitext(v[2]).extension) > 1
    /\ \A scheme \in URI_SCHEMES : ~startswith(lower(v[2]), scheme)
    /\ ~(v[2] # <<>> /\ v[2][1] = "/")

Joined(v) == Str(join(args.yaml_dirname, v[2]))

\* what the claim asks of a value stored under key: dictionaries are entered
\* wherever they are, strings and the strings of lists under a path key are
\* rewritten when they are relative paths
RECURSIVE Rewritten(_, _)
Rewritten(key, v) ==
    CASE Tag(v) = "d" ->
            Dict(Keys(v), [n \in 1..Len(Keys(v)) |-> Rewritten(Keys(v)[n], Vals(v)[n])])
      [] Tag(v) = "l" ->
            List([n \in 1..Len(Elems(v)) |->
                    IF Tag(Elems(v)[n]) = "d" THEN Rewritten(key, Elems(v)[n])
                    ELSE IF IsPathKey(key) /\ IsRelativePath(Elems(v)[n])
                    THEN Joined(Elems(v)[n])
                    ELSE Elems(v)[n]])
      [] OTHER -> IF IsPathKey(key) /\ IsRelativePath(v) THEN Joined(v) ELSE v

\* the same, dictionaries inside lists left as they are
RECURSIVE RewrittenThroughDicts(_, _)
RewrittenThroughDicts(key, v) ==
    CASE Tag(v) = "d" ->
            Dict(Keys(v), [n \in 1..Len(Keys(v)) |->
                             RewrittenThroughDicts(Keys(v)[n], Vals(v)[n])])
      [] Tag(v) = "l" ->
            List([n \in 1..Len(Elems(v)) |->
                    IF IsPathKey(key) /\ IsRelativePath(Elems(v)[n])
                    THEN Joined(Elems(v)[n])
                    ELSE Elems(v)[n]])
      [] OTHER -> IF IsPathKey(key) /\ IsRelativePath(v) THEN Joined(v) ELSE v

\* C13: make_paths_relative rewrites, at every nesting depth of the
\* configuration, exactly the strings and string elements of lists stored
\* under a path key that are relative file system paths, to the yaml
\* directory joined with them, and leaves every other value as it is.
C13_PathsRelative ==
    pc = "relative" => out = Rewritten("", args.cfg_dict)

\* what holds of the call: the same when only dictionaries nested in
\* dictionaries count as nesting
PathsRelativeThroughDicts ==
    pc = "relative" => out = RewrittenThroughDicts("", args.cfg_dict)

---------------------------------------------------------------------------
(* biome/data/utils.py: the dask client of the process.  A client is        *)
(* <<"client", n>>, the n-th the process created; what a call meets outside  *)
(* the process (a scheduler listening or not, a constructor or a close that  *)
(* raises) is the call's env.                                               *)

MaxClients == 2   \* clients, and local clusters, a process creates

Client(n) == <<"client", n>>

GB == 1000000000

\* dask.utils.parse_bytes of the strings the model passes
parse_bytes(string) ==
    CASE string = "1GB" -> [exc |-> "none", bytes |-> GB]
      [] OTHER -> [exc |-> "ValueError", bytes |-> 0]

\* lines 123-124: worker_memory is <<"str", string>> or <<"int", bytes>>
WorkerMemory(worker_memory) ==
    IF worker_memory[1] = "str" THEN parse_bytes(worker_memory[2])
    ELSE [exc |-> "none", bytes |-> worker_memory[2]]

Failed(exc, handle, cs, ls) ==
    [exc |-> exc, ret |-> None, handle |-> handle, clients |-> cs, clusters |-> ls]

Created(cs, ls) ==
    [exc |-> "none", ret |-> Client(Len(cs)), handle |-> Client(Len(cs)),
     clients |-> cs, clusters |-> ls]

\* create_dask_client (lines 84-115) and the assignment of lines 126-128; the
\* cache of lines 87-89 is no state of the model, its raising is connect_raises
create_dask_client(cs, ls, dask_cluster, workers, worker_mem, env) ==
    IF dask_cluster = "local"
    THEN CASE env = "listening" ->
                \* Client("localhost:8786", timeout=5)
                Created(Append(cs, [address |-> "localhost:8786", cluster |-> 0,
                                    closed |-> FALSE]), ls)
           [] env = "connect_raises" ->
                \* an exception that is no OSError
                Failed("Exception", None, cs, ls)
           [] env = "cluster_raises" ->
                \* OSError, then LocalCluster(...) raises
                Failed("Exception", None, cs, ls)
           [] env = "client_raises" ->
                \* OSError, the LocalCluster is there, Client(cluster) raises
                Failed("Exception", None, cs,
                       Append(ls, [n_workers |-> workers, memory_limit |-> worker_mem,
                                   closed |-> FALSE]))
           [] OTHER ->
                \* OSError, then a LocalCluster and its Client
                Created(Append(cs, [address |-> "cluster", cluster |-> Len(ls) + 1,
                                    closed |-> FALSE]),
                        Append(ls, [n_workers |-> workers, memory_limit |-> worker_mem,
                                    closed |-> FALSE]))
    ELSE IF env = "listening"
         THEN Created(Append(cs, [address |-> dask_cluster, cluster |-> 0,
                                  closed |-> FALSE]), ls)
         ELSE Failed("Exception", None, cs, ls)

\* lines 117-130, memory the outcome of lines 123-124
ConfigureWith(cs, ls, address, n_workers, memory, env) ==
    IF memory.exc # "none" THEN Failed(memory.exc, None, cs, ls)
    ELSE create_dask_client(cs, ls, address, n_workers, memory.bytes, env)

\* configure_dask_cluster without the return of lines 79-80
configure_dask_cluster_always_creates(handle, cs, ls, address, n_workers, worker_memory, env) ==
    ConfigureWith(cs, ls, address, n_workers, WorkerMemory(worker_memory), env)

\* configure_dask_cluster(address, n_workers, worker_memory)
configure_dask_cluster(handle, cs, ls, address, n_workers, worker_memory, env) ==
    IF handle # None
    THEN [exc |-> "none", ret |-> handle, handle |-> handle,
          clients |-> cs, clusters |-> ls]
    ELSE ConfigureWith(cs, ls, address, n_workers, WorkerMemory(worker_memory), env)

Close(sequence, n) == [sequence EXCEPT ![n].closed = TRUE]

\* what close_dask_client leaves: nothing is raised, err is logged
Closed(logged, handle, cs, ls) ==
    [exc |-> "none", logged |-> logged, handle |-> handle, clients |-> cs,
     clusters |-> ls]

\* close_dask_client with the handle reset only when nothing was raised
close_dask_client_no_finally(handle, cs, ls, env) ==
    IF handle = None
    THEN Closed("AttributeError", handle, cs, ls)
    ELSE IF env = "client_close_raises"
    THEN Closed("client.close", handle, cs, ls)
    ELSE IF cs[handle[2]].cluster = 0
    THEN Closed("AttributeError", handle, Close(cs, handle[2]), ls)
    ELSE IF env = "cluster_close_raises"
    THEN Closed("cluster.close", handle, Close(cs, handle[2]), ls)
    ELSE Closed("", None, Close(cs, handle[2]), Close(ls, cs[handle[2]].cluster))

\* close_dask_client()
close_dask_client(handle, cs, ls, env) ==
    IF handle = None
    THEN \* None has no close
         Closed("AttributeError", None, cs, ls)
    ELSE IF env = "client_close_raises"
    THEN Closed("client.close", None, cs, ls)
    ELSE IF cs[handle[2]].cluster = 0
    THEN \* client.cluster is None
         Closed("AttributeError", None, Close(cs, handle[2]), ls)
    ELSE IF env = "cluster_close_raises"
    THEN Closed("cluster.close", None, Close(cs, handle[2]), ls)
    ELSE Closed("", None, Close(cs, handle[2]), Close(ls, cs[handle[2]].cluster))

Addresses == {"local", "tcp://remote:8786"}
\* n_workers and worker_memory: the defaults, a number of bytes, a string
\* that parse_bytes does not take
Sizings ==
    {[n_workers |-> 1, worker_memory |-> <<"str", "1GB">>],
     [n_workers |-> 2, worker_memory |-> <<"int", 5>>],
     [n_workers |-> 2, worker_memory |-> <<"str", "1XB">>]}
ConfigureEnvs ==
    {"listening", "not_listening", "connect_raises", "cluster_raises", "client_raises"}
CloseEnvs == {"closes", "client_close_raises", "cluster_close_raises"}

InitDask ==
    /\ pc = "imported"
    /\ NoDask
    /\ args = NoArgs
    /\ out = NoOut
    /\ _df = NoFrame /\ mapping = <<>>
    /\ data_frame = NoFrame /\ partition = NoFrame
    /\ result = NoResult /\ second = NoResult
    /\ SUPPORTED_FORMATS = BuiltinFormats
    /\ reader_calls = <<>>
    /\ registrations = <<>>

ConfigureDaskCluster ==
    /\ __DASK_CLIENT = None => Len(clients) < MaxClients /\ Len(clusters) < MaxClients
    /\ \E address \in Addresses, sizing \in Sizings, env \in ConfigureEnvs :
          /\ args' = [address |-> address, n_workers |-> sizing.n_workers,
                      worker_memory |-> sizing.worker_memory]
          /\ out' = configure_dask_cluster(__DASK_CLIENT, clients, clusters, address,
                                           sizing.n_workers, sizing.worker_memory, env)
    /\ __DASK_CLIENT' = out'.handle
    /\ clients' = out'.clients
    /\ clusters' = out'.clusters
    /\ pc' = "configure_dask_cluster"
    /\ UNCHANGED <<flatVars, clsVars, _df, mapping>>

CloseDaskClient ==
    /\ \E env \in CloseEnvs :
          out' = close_dask_client(__DASK_CLIENT, clients, clusters, env)
    /\ __DASK_CLIENT' = out'.handle
    /\ clients' = out'.clients
    /\ clusters' = out'.clusters
    /\ args' = NoArgs
    /\ pc' = "close_dask_client"
    /\ UNCHANGED <<flatVars, clsVars, _df, mapping>>

NextDask == ConfigureDaskCluster \/ CloseDaskClient

SpecDask == InitDask /\ [][NextDask]_vars

\* Claims about the dask client

C17_CloseNeverRaises ==
    [][/\ pc' = "close_dask_client" => out'.exc = "none" /\ __DASK_CLIENT' = None
       /\ (pc = "close_dask_client" /\ pc' = "configure_dask_cluster"
             /\ out'.exc = "none") =>
              /\ Len(clients') = Len(clients) + 1
              /\ __DASK_CLIENT' = Client(Len(clients'))
              /\ out'.ret = __DASK_CLIENT']_vars

\* the close of the client raised, the handle is unset, and a second client
\* was created by the call after it
C17_Witness ==
    /\ pc = "configure_dask_cluster"
    /\ Len(clients) = 2
    /\ ~clients[1].closed
    /\ __DASK_CLIENT = Client(2)

---------------------------------------------------------------------------
(* sources/readers.py: from_elasticsearch.  What it builds is the list of   *)
(* the keyword arguments of the delayed scans, one for each partition.      *)

MaxPartitions == 6   \* the largest npartitions asked for

EmptyDict == Dict(<<>>, <<>>)

DOC == Str(<<"_", "d", "o", "c">>)

\* query or {}
QueryOr(query) == IF Truthy(query) THEN query ELSE EmptyDict

\* query.setdefault("sort", ["_doc"])
WithSort(query) ==
    IF "sort" \in Range(Keys(query)) THEN query ELSE DictSet(query, "sort", List(<<DOC>>))

\* {"id": idx, "max": npartitions}
Slice(idx, npartitions) == Dict(<<"id", "max">>, <<Scalar(idx), Scalar(npartitions)>>)

\* lines 209-213: dict(kwargs, query=dict(query, slice=slice)) for idx in
\* range(npartitions)
ScanKwargs(query, npartitions, kwargs) ==
    [n \in 1..npartitions |->
        DictSet(kwargs, "query", DictSet(query, "slice", Slice(n - 1, npartitions)))]

\* from_elasticsearch without lines 196-200
from_elasticsearch_no_minimum(query, npartitions, kwargs) ==
    [exc |-> "none", warned |-> FALSE,
     index_scan |-> ScanKwargs(WithSort(QueryOr(query)),
                               IF npartitions < 0 THEN 0 ELSE npartitions, kwargs)]

\* from_elasticsearch(query, npartitions, **kwargs)
from_elasticsearch(query, npartitions, kwargs) ==
    [exc |-> "none", warned |-> npartitions < 2,
     index_scan |-> ScanKwargs(WithSort(QueryOr(query)),
                               IF npartitions < 2 THEN 2 ELSE npartitions, kwargs)]

Queries ==
    {None, EmptyDict,
     Dict(<<"sort">>, <<List(<<Str(<<"a">>)>>)>>),
     Dict(<<"slice">>, <<Slice(9, 9)>>)}

ScanParameters == {EmptyDict, Dict(<<"index">>, <<Str(<<"i", "d", "x">>)>>)}

InitElastic ==
    /\ pc = "reader"
    /\ args \in [query : Queries, npartitions : (0 - 1)..MaxPartitions,
                 kwargs : ScanParameters]
    /\ out = NoOut
    /\ _df = NoFrame /\ mapping = <<>>
    /\ data_frame = NoFrame /\ partition = NoFrame
    /\ result = NoResult /\ second = NoResult
    /\ SUPPORTED_FORMATS = BuiltinFormats
    /\ reader_calls = <<>>
    /\ registrations = <<>>
    /\ NoDask

FromElasticsearch ==
    /\ pc = "reader"
    /\ out' = from_elasticsearch(args.query, args.npartitions, args.kwargs)
    /\ pc' = "from_elasticsearch"
    /\ UNCHANGED <<flatVars, clsVars, _df, mapping, args, daskVars>>

NextElastic == FromElasticsearch

SpecElastic == InitElastic /\ [][NextElastic]_vars

\* Claims about from_elasticsearch

Partitions == IF args.npartitions < 2 THEN 2 ELSE args.npartitions

SliceOf(scan_kwargs) == DictGet(DictGet(scan_kwargs, "query", None), "slice", None)

\* C19: for every npartitions n, from_elasticsearch raises nothing and builds
\* N = max(n, 2) scans; the n-th of them, counting from 0, asks for the
\* slice of id n and max N, so the ids are 0..N-1, each once; it warns
\* exactly when n < 2.
C19_SlicesCoverPartitions ==
    pc = "from_elasticsearch" =>
        /\ out.exc = "none"
        /\ Len(out.index_scan) = Partitions
        /\ \A n \in 1..Len(out.index_scan) :
              /\ Tag(SliceOf(out.index_scan[n])) = "d"
              /\ DictGet(SliceOf(out.index_scan[n]), "id", None) = Scalar(n - 1)
              /\ DictGet(SliceOf(out.index_scan[n]), "max", None) = Scalar(Partitions)
        /\ out.warned <=> args.npartitions < 2

\* one partition was asked for, with a query that names a slice itself
C19_Witness ==
    /\ pc = "from_elasticsearch"
    /\ args.npartitions = 1
    /\ args.query = Dict(<<"slice">>, <<Slice(9, 9)>>)
    /\ out.warned
    /\ Len(out.index_scan) = 2
    /\ SliceOf(out.index_scan[2]) = Slice(1, 2)

---------------------------------------------------------------------------
(* Claims about the list-of-structured columns of flatten_dataframe *)

\* a non-empty list of dicts whose values are numbers
IsRecordList(v) ==
    /\ Tag(v) = "l" /\ Len(v[2]) > 0
    /\ \A x \in 1..Len(v[2]) :
          /\ Tag(v[2][x]) = "d"
          /\ \A y \in 1..Len(v[2][x][3]) : Tag(v[2][x][3][y]) = "s"

\* the keys of the records of a list
RecordKeys(v) == UNION {Range(v[2][x][2]) : x \in 1..Len(v[2])}

\* c is a list-of-structured column
ListColumn == is_list_of_structured_data(FirstPresent(InputColumn))

\* row i of column c.*.k is the list of the records' values at k, in the
\* records' order, missing where a record has no k
Pivoted(i, k) ==
    /\ ("c.*." \o k) \in Range(result.df.columns)
    /\ Tag(ResultCell("c.*." \o k, i)) = "l"
    /\ Len(ResultCell("c.*." \o k, i)[2]) = Len(InputColumn[i][2])
    /\ \A x \in 1..Len(InputColumn[i][2]) :
          IF k \in Range(InputColumn[i][2][x][2])
          THEN ResultCell("c.*." \o k, i)[2][x] = DictGet(InputColumn[i][2][x], k, None)
          ELSE isna(ResultCell("c.*." \o k, i)[2][x])

\* C18: for a list-of-structured column c, flatten_dataframe returns a table
\* with the rows of its input, and for each row of c that is a list of
\* records and each key k of them, column c.*.k holds in that row the list,
\* in record order and one entry for each record, of the values at k.
C18_ListColumnPivoted ==
    (pc = "flattened" /\ ListColumn) =>
        /\ result.exc = "none"
        /\ result.df.index = data_frame.index
        /\ \A i \in 1..Len(InputColumn) :
              IsRecordList(InputColumn[i]) =>
                  \A k \in RecordKeys(InputColumn[i]) : Pivoted(i, k)

\* what holds of the call: the same of a column whose every row is a
\* non-empty list of records of numbers, one of them at least with a key
PivotedWhenAllRecordLists ==
    (/\ pc = "flattened"
     /\ \A i \in 1..Len(InputColumn) :
           IsRecordList(InputColumn[i]) /\ RecordKeys(InputColumn[i]) # {}) =>
        /\ result.exc = "none"
        /\ result.df.index = data_frame.index
        /\ \A i \in 1..Len(InputColumn) :
              \A k \in RecordKeys(InputColumn[i]) : Pivoted(i, k)

====
